---- MODULE Spec2Model ----
(***************************************************************************)
(* ofxParameterCollection<ParameterType> (src/example/src/ofApp.cpp, the   *)
(* header section, lines 154-574) together with the example application's  *)
(* serialize/deserialize (lines 69-91).                                     *)
(*                                                                         *)
(* ParameterType is instantiated as int.  Strings are sequences of         *)
(* one-character strings.  An ofParameter is an object of a small heap     *)
(* (obj): copies of an ofParameter share the object, so a handle is the    *)
(* object's id.  The shared_ptr handles that clients keep are the set held.*)
(***************************************************************************)
EXTENDS Integers, Sequences, FiniteSets, TLC

\* ------------------------------------------------------------------ bounds
MaxLen == 3      \* most items the clients put in the collection
MaxHeld == 1     \* most item handles a client keeps at a time
MaxKids == 2     \* most children of the group node of a document handed in
MaxArgs == 2     \* most pointers in a list handed to setCollection

\* ParameterType values the clients use (int)
Val == {0, 12}

\* the prefixes a client may pass to setup
Prefixes == {<<"P", " ">>}

\* the objects alive at a time: the items, the handles the clients keep, and
\* one more for the copy setCollection works from while it makes new ones
ObjIds == 1..(MaxLen + MaxHeld + 1)
NoObj == [name |-> <<>>, value |-> -1, lim |-> <<>>, live |-> FALSE]

\* the (min, max) pairs a client may pass to setLimits
LimitPairs == {<<0, 20>>, <<5, 10>>}

\* --------------------------------------------------------------- variables
VARIABLES
    itemPrefix,       \* std::string itemPrefix
    isSetup,          \* bool isSetup
    hasLimits,        \* bool hasLimits
    limits,           \* <<min, max>>; <<>> while min and max are unset
    obj,              \* heap: ObjIds -> ofParameter object (or NoObj)
    parameters,       \* vector<shared_ptr<ofParameter>>: Seq(ObjIds)
    parameterGroup,   \* the children of the ofParameterGroup: Seq(ObjIds)
    valueListeners,   \* ofEventListeners: Seq([src, payload])
    held,             \* handles kept by clients (getAt, back, getParameters)
    file,             \* settings.xml as the application last saved it
    aborted,          \* an assert failed or an exception escaped
    shapeLog,         \* collectionChangedEvent notifications of the last call
    itemLog,          \* collectionItemChangedEvent notifications of the last call
    lastOp,           \* the last call, its arguments and its return value
    onlyAdds          \* since setup, only addItem has changed the collection

vars == <<itemPrefix, isSetup, hasLimits, limits, obj, parameters, parameterGroup,
          valueListeners, held, file, aborted, shapeLog, itemLog, lastOp, onlyAdds>>

\* ------------------------------------------------------------ conversions
Digit(d) == CASE d = 0 -> "0" [] d = 1 -> "1" [] d = 2 -> "2" [] d = 3 -> "3"
              [] d = 4 -> "4" [] d = 5 -> "5" [] d = 6 -> "6" [] d = 7 -> "7"
              [] d = 8 -> "8" [] d = 9 -> "9"

DigitValue(c) == CASE c = "0" -> 0 [] c = "1" -> 1 [] c = "2" -> 2 [] c = "3" -> 3
              [] c = "4" -> 4 [] c = "5" -> 5 [] c = "6" -> 6 [] c = "7" -> 7
              [] c = "8" -> 8 [] c = "9" -> 9 [] OTHER -> -1

\* ofToString of a non-negative int: its decimal text
RECURSIVE ofToString(_)
ofToString(n) == IF n < 10 THEN <<Digit(n)>>
                 ELSE ofToString(n \div 10) \o <<Digit(n % 10)>>

\* ofXml::getIntValue: the leading decimal digits of the text, 0 when there are none
RECURSIVE ParseDigits(_, _)
ParseDigits(acc, s) ==
    IF s = <<>> \/ DigitValue(Head(s)) < 0 THEN acc
    ELSE ParseDigits(acc * 10 + DigitValue(Head(s)), Tail(s))

getIntValue(text) == ParseDigits(0, text)

\* ofAbstractParameter::getEscapedName: a space becomes an underscore
getEscapedName(name) == [i \in 1..Len(name) |-> IF name[i] = " " THEN "_" ELSE name[i]]

\* ------------------------------------------------------------------- heap
\* the collection's part of the state, as the member functions read and write it
This == [obj |-> obj, parameters |-> parameters, parameterGroup |-> parameterGroup,
         valueListeners |-> valueListeners, shapeLog |-> <<>>, itemLog |-> <<>>,
         aborted |-> FALSE, ret |-> FALSE]

Range(s) == {s[i] : i \in 1..Len(s)}

\* the objects some shared_ptr or reference still reaches
Reachable(st) == held \cup Range(st.parameters) \cup Range(st.parameterGroup)
                      \cup {l.src : l \in Range(st.valueListeners)}
                      \cup {l.payload : l \in Range(st.valueListeners)}

\* std::make_shared: a new object, distinct from every object still reachable
NewId(st) == LET free == ObjIds \ Reachable(st)
             IN  CHOOSE id \in free : \A other \in free : id <= other

\* the last shared_ptr going away destroys the object
Release(st) == LET reachable == Reachable(st)
               IN  [st EXCEPT !.obj = [id \in ObjIds |->
                       IF id \in reachable THEN st.obj[id] ELSE NoObj]]

\* ------------------------------------------------------------ the events
\* collectionChangedEvent.notify(*this): the handlers run inline and see the
\* collection as it is at that moment
NotifyCollectionChanged(st) ==
    [st EXCEPT !.shapeLog = Append(@, [payload |-> "this",
                                       items |-> Len(st.parameters),
                                       group |-> Len(st.parameterGroup),
                                       listeners |-> Len(st.valueListeners)])]

\* collectionItemChangedEvent.notify(*paramPtr), from the listener of addItem
NotifyItemChanged(st, payload) == [st EXCEPT !.itemLog = Append(@, payload)]

\* ofEvent::notify of an item's value-change event: every listener still
\* subscribed to that object runs, in subscription order
RECURSIVE RunListeners(_, _, _)
RunListeners(st, listeners, src) ==
    IF listeners = <<>> THEN st
    ELSE RunListeners(IF Head(listeners).src = src
                      THEN NotifyItemChanged(st, Head(listeners).payload)
                      ELSE st,
                      Tail(listeners), src)

\* ofParameter::set(v) through any handle of the object: store, then notify
set(st, id, v) ==
    RunListeners([st EXCEPT !.obj[id].value = v], st.valueListeners, id)

\* ------------------------------------------------------------ operations
\* newListener with the captured pointer gone stale: the handler passes on
\* whatever object is first in the heap
newListener_StalePayload(id) == [src |-> id, payload |-> 1]

\* the listener that addItem subscribes on the new item
newListener(id) == [src |-> id, payload |-> id]

\* addItem that leaves out the "if (hasLimits)" block
addItem_SkipsLimits(st, value, doNotify) ==
    LET id == NewId(st)
        param == [name |-> itemPrefix \o ofToString(Len(st.parameterGroup)),
                  value |-> value,
                  lim |-> <<>>,
                  live |-> TRUE]
        added == [st EXCEPT !.obj[id] = param,
                            !.valueListeners = Append(@, newListener(id)),
                            !.parameters = Append(@, id),
                            !.parameterGroup = Append(@, id)]
    IN  IF st.aborted THEN st
        ELSE IF ~isSetup THEN [st EXCEPT !.aborted = TRUE]
        ELSE IF doNotify THEN NotifyCollectionChanged(added) ELSE added

\* addItem that subscribes its listener to a parameter with no value yet and
\* sets the initial value afterwards
addItem_SubscribesBeforeSet(st, value, doNotify) ==
    LET id == NewId(st)
        param == [name |-> itemPrefix \o ofToString(Len(st.parameterGroup)),
                  value |-> 0,
                  lim |-> IF hasLimits THEN limits ELSE <<>>,
                  live |-> TRUE]
        added == set([st EXCEPT !.obj[id] = param,
                                !.valueListeners = Append(@, newListener(id)),
                                !.parameters = Append(@, id),
                                !.parameterGroup = Append(@, id)], id, value)
    IN  IF st.aborted THEN st
        ELSE IF ~isSetup THEN [st EXCEPT !.aborted = TRUE]
        ELSE IF doNotify THEN NotifyCollectionChanged(added) ELSE added

\* addItem that names the new item by the size after the push
addItem_NamedAfterPush(st, value, doNotify) ==
    LET id == NewId(st)
        param == [name |-> itemPrefix \o ofToString(Len(st.parameterGroup) + 1),
                  value |-> value,
                  lim |-> IF hasLimits THEN limits ELSE <<>>,
                  live |-> TRUE]
        added == [st EXCEPT !.obj[id] = param,
                            !.valueListeners = Append(@, newListener(id)),
                            !.parameters = Append(@, id),
                            !.parameterGroup = Append(@, id)]
    IN  IF st.aborted THEN st
        ELSE IF ~isSetup THEN [st EXCEPT !.aborted = TRUE]
        ELSE IF doNotify THEN NotifyCollectionChanged(added) ELSE added

\* addItem that notifies before the item is in the vector and the group
addItem_NotifiesFirst(st, value, doNotify) ==
    LET told == IF doNotify THEN NotifyCollectionChanged(st) ELSE st
        id == NewId(told)
        param == [name |-> itemPrefix \o ofToString(Len(told.parameterGroup)),
                  value |-> value,
                  lim |-> IF hasLimits THEN limits ELSE <<>>,
                  live |-> TRUE]
        added == [told EXCEPT !.obj[id] = param,
                              !.valueListeners = Append(@, newListener(id)),
                              !.parameters = Append(@, id),
                              !.parameterGroup = Append(@, id)]
    IN  IF st.aborted THEN st
        ELSE IF ~isSetup THEN [st EXCEPT !.aborted = TRUE]
        ELSE added

\* addItem that drops the listener's token instead of pushing it
addItem_TokenDropped(st, value, doNotify) ==
    LET id == NewId(st)
        param == [name |-> itemPrefix \o ofToString(Len(st.parameterGroup)),
                  value |-> value,
                  lim |-> IF hasLimits THEN limits ELSE <<>>,
                  live |-> TRUE]
        added == [st EXCEPT !.obj[id] = param,
                            !.parameters = Append(@, id),
                            !.parameterGroup = Append(@, id)]
    IN  IF st.aborted THEN st
        ELSE IF ~isSetup THEN [st EXCEPT !.aborted = TRUE]
        ELSE IF doNotify THEN NotifyCollectionChanged(added) ELSE added

addItem(st, value, doNotify) ==
    LET id == NewId(st)
        param == [name |-> itemPrefix \o ofToString(Len(st.parameterGroup)),
                  value |-> value,
                  lim |-> IF hasLimits THEN limits ELSE <<>>,
                  live |-> TRUE]
        added == [st EXCEPT !.obj[id] = param,
                            !.valueListeners = Append(@, newListener(id)),
                            !.parameters = Append(@, id),
                            !.parameterGroup = Append(@, id)]
    IN  IF st.aborted THEN st
        ELSE IF ~isSetup THEN [st EXCEPT !.aborted = TRUE]
        ELSE IF Len(added.parameters) # Len(added.parameterGroup)
             THEN [added EXCEPT !.aborted = TRUE]
        ELSE IF doNotify THEN NotifyCollectionChanged(added) ELSE added

\* ofParameterGroup::remove(index), index counted from 0
GroupRemove(group, index) ==
    [k \in 1..(Len(group) - 1) |-> IF k <= index THEN group[k] ELSE group[k + 1]]

\* the loop of clear: for (i = size - 1; i >= 0; i--) parameterGroup.remove(i)
RECURSIVE RemoveDownFrom(_, _)
RemoveDownFrom(group, i) ==
    IF i < 0 THEN group ELSE RemoveDownFrom(GroupRemove(group, i), i - 1)

\* clear whose unsubscribeAll() leaves the first subscription in place
clear_KeepsFirstListener(st, doNotify) ==
    LET cleared == [st EXCEPT
                      !.parameterGroup = <<>>,
                      !.parameters = <<>>,
                      !.valueListeners = IF @ = <<>> THEN @ ELSE <<@[1]>>]
    IN  IF st.aborted THEN st
        ELSE IF doNotify THEN NotifyCollectionChanged(cleared) ELSE cleared

\* clear that notifies before valueListeners.unsubscribeAll()
clear_NotifiesBeforeUnsubscribe(st, doNotify) ==
    LET emptied == [st EXCEPT
                      !.parameterGroup = RemoveDownFrom(@, Len(@) - 1),
                      !.parameters = <<>>]
        told == IF doNotify THEN NotifyCollectionChanged(emptied) ELSE emptied
    IN  IF st.aborted THEN st
        ELSE [told EXCEPT !.valueListeners = <<>>]

\* clear whose loop stops at i > 0 and leaves the first child in the group
clear_LoopStopsEarly(st, doNotify) ==
    LET cleared == [st EXCEPT
                      !.parameterGroup = IF @ = <<>> THEN @ ELSE <<@[1]>>,
                      !.parameters = <<>>,
                      !.valueListeners = <<>>]
    IN  IF st.aborted THEN st
        ELSE IF doNotify THEN NotifyCollectionChanged(cleared) ELSE cleared

clear(st, doNotify) ==
    LET cleared == [st EXCEPT
                      !.parameterGroup = RemoveDownFrom(@, Len(@) - 1),
                      !.parameters = <<>>,
                      !.valueListeners = <<>>]
    IN  IF st.aborted THEN st
        ELSE IF doNotify THEN NotifyCollectionChanged(cleared) ELSE cleared

notify(st) == IF st.aborted THEN st ELSE NotifyCollectionChanged(st)

\* the loop of setCollection: addItem(value, false) for each input in order
RECURSIVE AddEach(_, _)
AddEach(st, values) ==
    IF values = <<>> THEN st
    ELSE AddEach(addItem(st, Head(values), FALSE), Tail(values))

\* setCollection(std::vector<ParameterType>, notify) whose clear() notifies too
setCollectionValues_ClearNotifies(st, newCollection, doNotify) ==
    LET rebuilt == AddEach(clear(st, doNotify), newCollection)
    IN  IF doNotify THEN notify(rebuilt) ELSE rebuilt

\* setCollection(std::vector<ParameterType>, notify)
setCollectionValues(st, newCollection, doNotify) ==
    LET rebuilt == AddEach(clear(st, FALSE), newCollection)
    IN  IF doNotify THEN notify(rebuilt) ELSE rebuilt

\* setCollection(std::vector<std::shared_ptr<ParameterType>>, notify)
setCollectionPtrs(st, newCollection, doNotify) ==
    LET rebuilt == AddEach(clear(st, FALSE), newCollection)
    IN  IF doNotify THEN notify(rebuilt) ELSE rebuilt

\* addItem of a copy of the ofParameter itself, its name included
RECURSIVE AddEachNamed(_, _)
AddEachNamed(st, params) ==
    IF params = <<>> THEN st
    ELSE LET added == addItem(st, Head(params).value, FALSE)
             id == added.parameters[Len(added.parameters)]
         IN  AddEachNamed(IF added.aborted THEN added
                          ELSE [added EXCEPT !.obj[id].name = Head(params).name],
                          Tail(params))

\* setCollection that adds a copy of each ofParameter, its name included,
\* instead of a new item made from its value
setCollection_KeepsNames(st, newCollection, doNotify) ==
    LET params == [k \in 1..Len(newCollection) |-> st.obj[newCollection[k]]]
        rebuilt == AddEachNamed(clear(st, FALSE), params)
    IN  IF doNotify THEN notify(rebuilt) ELSE rebuilt

\* addItem of the very object a handle names: renamed, subscribed and pushed
RECURSIVE AddEachObject(_, _)
AddEachObject(st, ids) ==
    IF ids = <<>> THEN st
    ELSE AddEachObject(
             [st EXCEPT !.obj[Head(ids)].name =
                            itemPrefix \o ofToString(Len(st.parameterGroup)),
                        !.valueListeners = Append(@, newListener(Head(ids))),
                        !.parameters = Append(@, Head(ids)),
                        !.parameterGroup = Append(@, Head(ids))],
             Tail(ids))

\* setCollection that puts the objects handed in back into the collection
\* instead of new items made from their values
setCollection_ReusesObjects(st, newCollection, doNotify) ==
    LET rebuilt == AddEachObject(clear(st, FALSE), newCollection)
    IN  IF st.aborted THEN st
        ELSE IF ~isSetup /\ newCollection # <<>> THEN [st EXCEPT !.aborted = TRUE]
        ELSE IF doNotify THEN notify(rebuilt) ELSE rebuilt

\* setCollection(std::vector<std::shared_ptr<ofParameter>>, notify).  The vector
\* is passed by value, so the objects it names outlive clear() and each is read
\* (operator const ParameterType&) as it was when the call began.
setCollection(st, newCollection, doNotify) ==
    LET values == [k \in 1..Len(newCollection) |-> st.obj[newCollection[k]].value]
        rebuilt == AddEach(clear(st, FALSE), values)
    IN  IF doNotify THEN notify(rebuilt) ELSE rebuilt

\* std::find over parameters: the first position holding param, 0 for end()
Find(seq, param) ==
    IF \E k \in 1..Len(seq) : seq[k] = param
    THEN CHOOSE k \in 1..Len(seq) : seq[k] = param /\ \A j \in 1..(k - 1) : seq[j] # param
    ELSE 0

\* vector::erase of the element at position k (counted from 1)
Erase(seq, k) == [j \in 1..(Len(seq) - 1) |-> IF j < k THEN seq[j] ELSE seq[j + 1]]

\* removeItem whose setCollection is called with the default notify = true
removeItem_RebuildNotifies(st, param, doNotify) ==
    LET iter == Find(st.parameters, param)
        erased == [st EXCEPT !.parameters = Erase(@, iter)]
        rebuilt == setCollection(erased, erased.parameters, TRUE)
        told == IF doNotify THEN notify(rebuilt) ELSE rebuilt
    IN  IF st.aborted THEN st
        ELSE IF iter # 0 THEN [told EXCEPT !.ret = TRUE]
        ELSE [st EXCEPT !.ret = FALSE]

\* removeItem that erases the item from the vector, the group and the
\* listeners in place instead of rebuilding the collection
removeItem_ErasesInPlace(st, param, doNotify) ==
    LET iter == Find(st.parameters, param)
        erased == [st EXCEPT !.parameters = Erase(@, iter),
                             !.parameterGroup = Erase(@, iter),
                             !.valueListeners = Erase(@, iter)]
        told == IF doNotify THEN notify(erased) ELSE erased
    IN  IF st.aborted THEN st
        ELSE IF iter # 0 THEN [told EXCEPT !.ret = TRUE]
        ELSE [st EXCEPT !.ret = FALSE]

\* removeItem whose setCollection takes the vector by reference: clear()
\* empties the very vector the loop then walks
removeItem_VectorByReference(st, param, doNotify) ==
    LET iter == Find(st.parameters, param)
        erased == [st EXCEPT !.parameters = Erase(@, iter)]
        rebuilt == setCollection(erased, <<>>, FALSE)
        told == IF doNotify THEN notify(rebuilt) ELSE rebuilt
    IN  IF st.aborted THEN st
        ELSE IF iter # 0 THEN [told EXCEPT !.ret = TRUE]
        ELSE [st EXCEPT !.ret = FALSE]

removeItem(st, param, doNotify) ==
    LET iter == Find(st.parameters, param)
        erased == [st EXCEPT !.parameters = Erase(@, iter)]
        rebuilt == setCollection(erased, erased.parameters, FALSE)
        told == IF doNotify THEN notify(rebuilt) ELSE rebuilt
    IN  IF st.aborted THEN st
        ELSE IF iter # 0
             THEN IF Len(told.parameterGroup) # Len(told.parameters)
                  THEN [told EXCEPT !.aborted = TRUE]
                  ELSE [told EXCEPT !.ret = TRUE]
             ELSE [st EXCEPT !.ret = FALSE]

\* the comparison made between ints: a negative index passes as in bounds
IndexOutOfBounds_SignedCompare(i, size) == i >= size

\* "i >= parameters.size()" compares as size_t: a negative int i converts to
\* 2^64 + i, which is above every vector size
IndexOutOfBounds(i, size) == IF i < 0 THEN TRUE ELSE i >= size

\* removeAt(i, notify); getAt(i) is parameters.at(i), which throws
\* std::out_of_range for an index the vector does not have
removeAt(st, i, doNotify) ==
    IF st.aborted THEN st
    ELSE IF IndexOutOfBounds(i, Len(st.parameters)) THEN [st EXCEPT !.ret = FALSE]
    ELSE IF i + 1 \notin 1..Len(st.parameters) THEN [st EXCEPT !.aborted = TRUE]
    ELSE removeItem(st, st.parameters[i + 1], doNotify)

\* addEntry that calls addItem(value) and so with the default notify = true
addEntry_IgnoresNotify(st, value, doNotify) == addItem(st, value, TRUE)

\* addEntry(notify): the local "ParameterType value" is never initialised, so
\* the item gets whatever value the caller of this operator picked
addEntry(st, value, doNotify) == addItem(st, value, doNotify)

\* the loop of preDeserialize over the children of the matched node
RECURSIVE AddEntryPerChild(_, _, _)
AddEntryPerChild(st, children, junk) ==
    IF children = <<>> THEN st
    ELSE IF Len(Head(children).text) = 0
         THEN AddEntryPerChild(st, Tail(children), junk)
         ELSE AddEntryPerChild(addEntry(st, Head(junk), FALSE), Tail(children), Tail(junk))

\* preDeserialize that clears only once it has found the group's node
preDeserialize_ClearsWhenFound(st, xml, doClear, junk) ==
    LET start == IF doClear THEN clear(st, FALSE) ELSE st
    IN  IF st.aborted THEN st
        ELSE IF ~isSetup THEN [st EXCEPT !.aborted = TRUE]
        ELSE IF ~xml.found THEN st
        ELSE AddEntryPerChild(start, xml.kids, junk)

\* preDeserialize whose loop stops after the first child
preDeserialize_StopsAfterFirstChild(st, xml, doClear, junk) ==
    LET start == IF doClear THEN clear(st, FALSE) ELSE st
    IN  IF st.aborted THEN st
        ELSE IF ~isSetup THEN [st EXCEPT !.aborted = TRUE]
        ELSE IF ~xml.found \/ xml.kids = <<>> THEN start
        ELSE AddEntryPerChild(start, <<Head(xml.kids)>>, junk)

\* preDeserialize(xml, clear); junk are the values the uninitialised locals hold
preDeserialize(st, xml, doClear, junk) ==
    LET start == IF doClear THEN clear(st, FALSE) ELSE st
    IN  IF st.aborted THEN st
        ELSE IF ~isSetup THEN [st EXCEPT !.aborted = TRUE]
        ELSE IF ~xml.found THEN start
        ELSE AddEntryPerChild(start, xml.kids, junk)

\* the loop of setValues: "parameters[i].get() = newValues[i]" assigns to the
\* pointer that shared_ptr::get() returns by value.  reaches says whether the
\* assignment reaches the item (what the statement means to do) or only the
\* temporary (what it says).
RECURSIVE AssignEach(_, _, _)
AssignEach(st, i, newValues) ==
    IF i > Len(st.parameters) THEN st
    ELSE AssignEach(set(st, st.parameters[i], newValues[i]), i + 1, newValues)

\* setValues that notifies before it checks the length of the list
setValues_NotifiesBeforeAssert(st, newValues, doNotify, reaches) ==
    LET told == IF doNotify THEN notify(st) ELSE st
        assigned == IF reaches THEN AssignEach(told, 1, newValues) ELSE told
    IN  IF st.aborted THEN st
        ELSE IF Len(newValues) # Len(st.parameters) THEN [told EXCEPT !.aborted = TRUE]
        ELSE assigned

\* setValues(std::vector<ParameterType>, notify) and
\* setValues(std::vector<std::shared_ptr<ParameterType>>, notify)
setValues(st, newValues, doNotify, reaches) ==
    LET assigned == IF reaches THEN AssignEach(st, 1, newValues) ELSE st
    IN  IF st.aborted THEN st
        ELSE IF Len(newValues) # Len(st.parameters) THEN [st EXCEPT !.aborted = TRUE]
        ELSE IF doNotify THEN notify(assigned) ELSE assigned

\* ------------------------------------------------- the persisted document
\* A document is the node of the collection's group, if the document has one,
\* and that node's children in document order; a child is a name and a text.
NoGroupNode == [found |-> FALSE, kids |-> <<>>]

\* ofXml::findFirst(name) below a node: the first child so named, 0 for none
findFirst(kids, name) ==
    IF \E k \in 1..Len(kids) : kids[k].name = name
    THEN CHOOSE k \in 1..Len(kids) :
             kids[k].name = name /\ \A j \in 1..(k - 1) : kids[j].name # name
    ELSE 0

\* ofSerialize(child, *p) for the parameters of the group, in group order:
\* find the tag or append it, then set its text
RECURSIVE SerializeEach(_, _, _)
SerializeEach(kids, st, group) ==
    IF group = <<>> THEN kids
    ELSE LET p == st.obj[Head(group)]
             name == getEscapedName(p.name)
             value == ofToString(p.value)
             child == findFirst(kids, name)
         IN  SerializeEach(IF child = 0
                           THEN Append(kids, [name |-> name, text |-> value])
                           ELSE [kids EXCEPT ![child].text = value],
                           st, Tail(group))

\* ofSerialize(xml, mainGroup), as far as it writes the collection's group
ofSerialize(xml, st) ==
    [found |-> TRUE, kids |-> SerializeEach(xml.kids, st, st.parameterGroup)]

\* ofDeserialize(child, *p) for the parameters of the group, in group order:
\* a parameter whose tag is found is set to the tag's int value
RECURSIVE DeserializeEach(_, _, _)
DeserializeEach(st, kids, group) ==
    IF group = <<>> THEN st
    ELSE LET name == getEscapedName(st.obj[Head(group)].name)
             child == findFirst(kids, name)
         IN  DeserializeEach(IF child = 0 THEN st
                             ELSE set(st, Head(group), getIntValue(kids[child].text)),
                             kids, Tail(group))

\* ofDeserialize(xml, mainGroup), as far as it reads the collection's group
ofDeserialize(st, xml) ==
    IF st.aborted \/ ~xml.found THEN st
    ELSE DeserializeEach(st, xml.kids, st.parameterGroup)

\* ------------------------------------------------------------------ calls
\* what is kept of a call: its name, its arguments (idx, doNotify, doClear, the
\* list in, the document xml, the handle h), its return value, and whether it
\* directly follows the call it completes (follows); for preDeserialize, which
\* has no index, idx keeps the size of the collection when it was called
Call(op) == [op |-> op, idx |-> 0, doNotify |-> FALSE, doClear |-> FALSE,
             ret |-> FALSE, in |-> <<>>, xml |-> NoGroupNode, h |-> 0,
             follows |-> FALSE]

\* a member function returned (or aborted) leaving the collection as st
Return(st, call) ==
    \E r \in {Release(st)} :
        /\ obj' = r.obj
        /\ parameters' = r.parameters
        /\ parameterGroup' = r.parameterGroup
        /\ valueListeners' = r.valueListeners
        /\ shapeLog' = r.shapeLog
        /\ itemLog' = r.itemLog
        /\ aborted' = r.aborted
        /\ lastOp' = [call EXCEPT !.ret = r.ret]

Init ==
    /\ itemPrefix = <<>>
    /\ isSetup = FALSE
    /\ hasLimits = FALSE
    /\ limits = <<>>
    /\ obj = [id \in ObjIds |-> NoObj]
    /\ parameters = <<>>
    /\ parameterGroup = <<>>
    /\ valueListeners = <<>>
    /\ held = {}
    /\ file = NoGroupNode
    /\ aborted = FALSE
    /\ shapeLog = <<>>
    /\ itemLog = <<>>
    /\ lastOp = Call("new")
    /\ onlyAdds = FALSE

\* sequences over S of length at most n
SeqUpTo(S, n) == UNION {[1..k -> S] : k \in 0..n}

\* setup(itemPrefix, groupName, parentGroup); clients call it once, first
Setup ==
    /\ ~aborted /\ ~isSetup
    /\ \E prefix \in Prefixes : itemPrefix' = prefix
    /\ isSetup' = TRUE
    /\ onlyAdds' = TRUE
    /\ Return(This, Call("setup"))
    /\ UNCHANGED <<hasLimits, limits, held, file>>

\* setLimits(min, max)
SetLimits ==
    /\ ~aborted
    /\ \E pair \in LimitPairs : limits' = pair
    /\ hasLimits' = TRUE
    /\ Return(This, Call("setLimits"))
    /\ UNCHANGED <<itemPrefix, isSetup, held, file, onlyAdds>>

AddItem ==
    /\ ~aborted
    /\ Len(parameters) < MaxLen
    /\ \E value \in Val, doNotify \in BOOLEAN :
          Return(addItem(This, value, doNotify),
                 [Call("addItem") EXCEPT !.in = <<value>>, !.doNotify = doNotify])
    /\ UNCHANGED <<itemPrefix, isSetup, hasLimits, limits, held, file, onlyAdds>>

\* getAt(index) with an index in range (the bounds are the caller's to keep),
\* the client keeping the handle
GetAt ==
    /\ ~aborted
    /\ \E index \in 0..(Len(parameters) - 1) :
          /\ Cardinality(held \cup {parameters[index + 1]}) <= MaxHeld
          /\ held' = held \cup {parameters[index + 1]}
          /\ lastOp' = [Call("getAt") EXCEPT !.idx = index, !.h = parameters[index + 1]]
    /\ shapeLog' = <<>> /\ itemLog' = <<>>
    /\ UNCHANGED <<itemPrefix, isSetup, hasLimits, limits, obj, parameters,
                   parameterGroup, valueListeners, file, aborted, onlyAdds>>

\* a client lets go of a handle it kept
DropHandle ==
    /\ ~aborted
    /\ \E h \in held :
          /\ held' = held \ {h}
          /\ obj' = [obj EXCEPT ![h] = IF h \in Reachable(This) \ held
                                          \/ h \in Range(parameters)
                                       THEN @ ELSE NoObj]
          /\ lastOp' = [Call("drop") EXCEPT !.h = h]
    /\ shapeLog' = <<>> /\ itemLog' = <<>>
    /\ UNCHANGED <<itemPrefix, isSetup, hasLimits, limits, parameters, parameterGroup,
                   valueListeners, file, aborted, onlyAdds>>

\* a client sets the value of an item through a handle: of an item it kept a
\* handle to, or of an item of the collection (getAt(i)->set(v))
SetItemValue ==
    /\ ~aborted
    /\ \E h \in held \cup Range(parameters), v \in Val :
          Return(set(This, h, v), [Call("set") EXCEPT !.h = h, !.in = <<v>>])
    /\ UNCHANGED <<itemPrefix, isSetup, hasLimits, limits, held, file, onlyAdds>>

RemoveAt ==
    /\ ~aborted
    /\ \E i \in (-1)..MaxLen, doNotify \in BOOLEAN :
          Return(removeAt(This, i, doNotify),
                 [Call("removeAt") EXCEPT !.idx = i, !.doNotify = doNotify])
    /\ onlyAdds' = FALSE
    /\ UNCHANGED <<itemPrefix, isSetup, hasLimits, limits, held, file>>

RemoveItem ==
    /\ ~aborted
    /\ \E param \in held, doNotify \in BOOLEAN :
          Return(removeItem(This, param, doNotify),
                 [Call("removeItem") EXCEPT !.h = param, !.doNotify = doNotify])
    /\ onlyAdds' = FALSE
    /\ UNCHANGED <<itemPrefix, isSetup, hasLimits, limits, held, file>>

SetCollection ==
    /\ ~aborted
    /\ \E newCollection \in SeqUpTo(held \cup Range(parameters), MaxArgs),
          doNotify \in BOOLEAN :
          Return(setCollection(This, newCollection, doNotify),
                 [Call("setCollection") EXCEPT !.in = newCollection,
                                               !.doNotify = doNotify])
    /\ onlyAdds' = FALSE
    /\ UNCHANGED <<itemPrefix, isSetup, hasLimits, limits, held, file>>

SetCollectionPtrs ==
    /\ ~aborted
    /\ \E newCollection \in SeqUpTo(Val, MaxArgs), doNotify \in BOOLEAN :
          Return(setCollectionPtrs(This, newCollection, doNotify),
                 [Call("setCollectionPtrs") EXCEPT !.in = newCollection,
                                                   !.doNotify = doNotify])
    /\ onlyAdds' = FALSE
    /\ UNCHANGED <<itemPrefix, isSetup, hasLimits, limits, held, file>>

SetCollectionValues ==
    /\ ~aborted
    /\ \E newCollection \in SeqUpTo(Val, MaxLen), doNotify \in BOOLEAN :
          Return(setCollectionValues(This, newCollection, doNotify),
                 [Call("setCollectionValues") EXCEPT !.in = newCollection,
                                                     !.doNotify = doNotify])
    /\ onlyAdds' = FALSE
    /\ UNCHANGED <<itemPrefix, isSetup, hasLimits, limits, held, file>>

\* the lists handed to setValues: every list of the right length, and one list
\* of each other length
ValueLists(size) == [1..size -> Val] \cup {[k \in 1..n |-> 0] : n \in 0..MaxLen}

SetValues ==
    /\ ~aborted
    /\ \E newValues \in ValueLists(Len(parameters)), doNotify \in BOOLEAN,
          reaches \in BOOLEAN :
          Return(setValues(This, newValues, doNotify, reaches),
                 [Call("setValues") EXCEPT !.in = newValues, !.doNotify = doNotify])
    /\ UNCHANGED <<itemPrefix, isSetup, hasLimits, limits, held, file, onlyAdds>>

Clear ==
    /\ ~aborted
    /\ \E doNotify \in BOOLEAN :
          Return(clear(This, doNotify), [Call("clear") EXCEPT !.doNotify = doNotify])
    /\ onlyAdds' = FALSE
    /\ UNCHANGED <<itemPrefix, isSetup, hasLimits, limits, held, file>>

Notify ==
    /\ ~aborted
    /\ Return(notify(This), Call("notify"))
    /\ UNCHANGED <<itemPrefix, isSetup, hasLimits, limits, held, file, onlyAdds>>

\* the names the children of a document handed in may have
KidNames == {getEscapedName(prefix \o ofToString(i)) :
                 prefix \in Prefixes, i \in 0..(MaxKids - 1)}

\* the texts they may have: the empty text, or a value's
KidTexts == {<<>>} \cup {ofToString(v) : v \in Val}

\* any document: with or without the group's node, the children in any order
Documents == {NoGroupNode} \cup
             {[found |-> TRUE, kids |-> kids] :
                  kids \in SeqUpTo([name : KidNames, text : KidTexts], MaxKids)}

\* the documents ofSerialize writes for some collection, and those with a text
\* emptied: the children are named prefix0, prefix1, ... in document order
SavedDocuments ==
    {d \in Documents : \E prefix \in Prefixes : \A k \in 1..Len(d.kids) :
         d.kids[k].name = getEscapedName(prefix \o ofToString(k - 1))}

NonEmptyKids(xml) == Cardinality({k \in 1..Len(xml.kids) : xml.kids[k].text # <<>>})

PreDeserialize(documents) ==
    /\ ~aborted
    /\ \E xml \in documents, doClear \in BOOLEAN :
       \E junk \in [1..NonEmptyKids(xml) -> Val] :
          /\ NonEmptyKids(xml) + (IF doClear THEN 0 ELSE Len(parameters)) <= MaxLen
          /\ Return(preDeserialize(This, xml, doClear, junk),
                    [Call("preDeserialize") EXCEPT !.xml = xml, !.doClear = doClear,
                                                   !.idx = Len(parameters)])
    /\ onlyAdds' = FALSE
    /\ UNCHANGED <<itemPrefix, isSetup, hasLimits, limits, held, file>>

\* the generic pass, ofDeserialize(xml, mainGroup), on a document
OfDeserialize(documents) ==
    /\ ~aborted
    /\ \E xml \in documents :
          Return(ofDeserialize(This, xml),
                 [Call("ofDeserialize") EXCEPT
                     !.xml = xml,
                     !.follows = /\ lastOp.op = "preDeserialize"
                                 /\ lastOp.xml = xml
                                 /\ lastOp.doClear])
    /\ onlyAdds' = FALSE
    /\ UNCHANGED <<itemPrefix, isSetup, hasLimits, limits, held, file>>

\* the values of the items, in order
Values(st) == [k \in 1..Len(st.parameters) |-> st.obj[st.parameters[k]].value]

\* setup(itemPrefix, groupName, parentGroup, min, max), as ofApp::setup calls it
SetupWithLimits ==
    /\ ~aborted /\ ~isSetup
    /\ \E prefix \in Prefixes : itemPrefix' = prefix
    /\ isSetup' = TRUE
    /\ \E pair \in LimitPairs : limits' = pair
    /\ hasLimits' = TRUE
    /\ onlyAdds' = TRUE
    /\ Return(This, Call("setup"))
    /\ UNCHANGED <<held, file>>

\* ofApp::addCircleButtonPressed: addItem(a random position)
AddCircle ==
    /\ ~aborted /\ isSetup
    /\ Len(parameters) < MaxLen
    /\ \E value \in Val :
          Return(addItem(This, value, TRUE),
                 [Call("addItem") EXCEPT !.in = <<value>>, !.doNotify = TRUE])
    /\ UNCHANGED <<itemPrefix, isSetup, hasLimits, limits, held, file, onlyAdds>>

\* ofApp::serialize: load settings.xml if it exists, ofSerialize into the
\* loaded document, save it
Serialize ==
    /\ ~aborted /\ isSetup
    /\ file' = ofSerialize(file, This)
    /\ Return(This, [Call("serialize") EXCEPT !.in = Values(This)])
    /\ UNCHANGED <<itemPrefix, isSetup, hasLimits, limits, held, onlyAdds>>

\* ofApp::deserialize: load settings.xml, preDeserialize(xml), ofDeserialize
Deserialize ==
    /\ ~aborted /\ isSetup
    /\ \E junk \in [1..NonEmptyKids(file) -> Val] :
          Return(ofDeserialize(preDeserialize(This, file, TRUE, junk), file),
                 [Call("deserialize") EXCEPT
                     !.xml = file,
                     !.in = IF lastOp.op = "serialize" THEN lastOp.in ELSE <<>>,
                     !.follows = (lastOp.op = "serialize")])
    /\ onlyAdds' = FALSE
    /\ UNCHANGED <<itemPrefix, isSetup, hasLimits, limits, held, file>>

\* the clients of the collection calling its public members in any order
Next ==
    \/ Setup \/ AddItem \/ GetAt \/ DropHandle \/ SetItemValue
    \/ RemoveAt \/ RemoveItem \/ SetCollection \/ SetCollectionPtrs
    \/ SetCollectionValues \/ SetValues \/ Clear \/ Notify
    \/ PreDeserialize(SavedDocuments) \/ OfDeserialize(SavedDocuments)

Spec == Init /\ [][Next]_vars

\* clients that add, remove and replace items and set their values
NextItems ==
    \/ Setup \/ AddItem \/ GetAt \/ DropHandle \/ SetItemValue
    \/ RemoveAt \/ RemoveItem \/ SetCollection \/ SetCollectionPtrs
    \/ SetCollectionValues \/ Clear \/ Notify

SpecItems == Init /\ [][NextItems]_vars

\* clients that deserialize any document in the two passes
NextDoc ==
    \/ Setup \/ AddItem \/ Clear
    \/ PreDeserialize(Documents) \/ OfDeserialize(Documents)

SpecDoc == Init /\ [][NextDoc]_vars

\* the example application: its add button, its save and load keys, and
\* removals
NextApp ==
    \/ SetupWithLimits \/ AddCircle \/ RemoveAt \/ Serialize \/ Deserialize

SpecApp == Init /\ [][NextApp]_vars

\* clients that add items and set their values, one by one or all at once
NextValues ==
    \/ Setup \/ AddItem \/ SetItemValue \/ SetValues \/ Clear

SpecValues == Init /\ [][NextValues]_vars

\* clients that set the limits at any time between adding and removing
\* items, and keep the handle they got
NextLimits ==
    \/ Setup \/ SetLimits \/ AddItem \/ GetAt
    \/ RemoveAt \/ RemoveItem \/ SetCollection

SpecLimits == Init /\ [][NextLimits]_vars

\* every variable has a value of its kind
TypeOK ==
    /\ isSetup \in BOOLEAN /\ hasLimits \in BOOLEAN /\ aborted \in BOOLEAN
    /\ parameters \in SeqUpTo(ObjIds, MaxLen)
    /\ parameterGroup \in SeqUpTo(ObjIds, MaxLen)
    /\ held \subseteq ObjIds /\ Cardinality(held) <= MaxHeld
    /\ \A id \in ObjIds : obj[id].live <=> id \in Reachable(This)

\* ------------------------------------------------------------ the claims
\* how many listeners of the collection are subscribed to object id
Subscriptions(id) == Cardinality({k \in 1..Len(valueListeners) : valueListeners[k].src = id})

\* C1: on a collection that has been set up, after each call that returns, the
\* vector holds as many items as the group has children.
C1_SizesAgree ==
    (isSetup /\ ~aborted) => Len(parameters) = Len(parameterGroup)

\* C1 witness: a removal from the middle of three items has returned true
C1_Witness ==
    /\ isSetup /\ ~aborted
    /\ lastOp.op = "removeAt" /\ lastOp.ret /\ lastOp.idx = 1
    /\ Len(parameters) = 2 /\ Len(parameterGroup) = 2

\* C2: after each call that returns, the collection holds one subscription per
\* item: exactly one on every item in the collection, none on an object that
\* is not in it; after clear() it holds none.
C2_OneSubscriptionPerItem ==
    ~aborted =>
        /\ Len(valueListeners) = Len(parameters)
        /\ \A id \in ObjIds :
               Subscriptions(id) = IF id \in Range(parameters) THEN 1 ELSE 0
        /\ lastOp.op = "clear" => Len(valueListeners) = 0

\* C2 witness: an item was removed while a client holds a handle to an item
\* that left the collection, and items remain
C2_Witness ==
    /\ ~aborted
    /\ lastOp.op = "removeAt" /\ lastOp.ret
    /\ Len(parameters) >= 2
    /\ \E h \in held : h \notin Range(parameters)

\* C3: setting the value of an item that is in the collection fires exactly
\* one item-changed event, and its payload is that item.
C3_SetFiresOnceWithItem ==
    (lastOp.op = "set" /\ lastOp.h \in Range(parameters)) => itemLog = <<lastOp.h>>

\* C3 witness: after items were removed or replaced (a client still holds a
\* handle that left the collection), the second of several items is set
C3_Witness ==
    /\ lastOp.op = "set"
    /\ Len(parameters) >= 2 /\ lastOp.h = parameters[2]
    /\ ~onlyAdds
    /\ \E h \in held : h \notin Range(parameters)

\* the document's group node is there and every child of it has a text
AllNonEmpty(xml) == xml.found /\ \A k \in 1..Len(xml.kids) : xml.kids[k].text # <<>>

\* the children are named as ofSerialize names a collection's items: the
\* escaped prefix followed by 0, 1, ... in document order
NamedInOrder(xml) ==
    \A k \in 1..Len(xml.kids) :
        xml.kids[k].name = getEscapedName(itemPrefix \o ofToString(k - 1))

\* every item's value prints as the text of the child at its position
ValuesAreTextsOf(xml) ==
    /\ Len(parameters) = Len(xml.kids)
    /\ \A k \in 1..Len(parameters) :
           ofToString(obj[parameters[k]].value) = xml.kids[k].text

\* C4 as claimed: for any document whose group node has k children, all with
\* a text, preDeserialize and then ofDeserialize leave k items whose values
\* are the k persisted values in document order.
C4_AsClaimed ==
    (lastOp.op = "ofDeserialize" /\ lastOp.follows /\ ~aborted
        /\ AllNonEmpty(lastOp.xml))
    => ValuesAreTextsOf(lastOp.xml)

\* C4 amended: the same, for a document whose k children are named
\* prefix0 .. prefix(k-1) in document order.
C4_NamedChildrenDeserialize ==
    (lastOp.op = "ofDeserialize" /\ lastOp.follows /\ ~aborted
        /\ AllNonEmpty(lastOp.xml) /\ NamedInOrder(lastOp.xml))
    => ValuesAreTextsOf(lastOp.xml)

\* C4 witness: the two passes have run on a document of two children with
\* different texts
C4_Witness ==
    /\ lastOp.op = "ofDeserialize" /\ lastOp.follows /\ ~aborted
    /\ AllNonEmpty(lastOp.xml) /\ NamedInOrder(lastOp.xml)
    /\ Len(lastOp.xml.kids) = 2
    /\ lastOp.xml.kids[1].text # lastOp.xml.kids[2].text
    /\ Len(parameters) = 2

\* C5: deserializing right after serializing recovers the values the
\* collection had when it was serialized, in order.
C5_RoundTrip ==
    (lastOp.op = "deserialize" /\ lastOp.follows /\ ~aborted)
    => Values(This) = lastOp.in

\* C6: removeAt(j) with 0 <= j < n returns true and leaves the n-1 other
\* values in their order.
C6_RemoveAtKeepsOrder ==
    [][(lastOp'.op = "removeAt" /\ lastOp'.idx >= 0 /\ lastOp'.idx < Len(parameters))
       => /\ ~aborted' /\ lastOp'.ret
          /\ Len(parameters') = Len(parameters) - 1
          /\ \A k \in 1..Len(parameters') :
                 obj'[parameters'[k]].value =
                     obj[parameters[IF k <= lastOp'.idx THEN k ELSE k + 1]].value]_vars

\* C6 witness: the middle one of three items was removed, and the two that
\* remain have different values
C6_Witness ==
    /\ lastOp.op = "removeAt" /\ lastOp.ret /\ lastOp.idx = 1
    /\ Len(parameters) = 2
    /\ obj[parameters[1]].value # obj[parameters[2]].value

SetCollectionOps == {"setCollection", "setCollectionPtrs", "setCollectionValues"}

\* C7: setCollection with k inputs (each overload) on a set-up collection
\* leaves k items with the inputs' values in order, and fires shape-changed
\* once, after the last item is in, when notify is true and never otherwise.
C7_SetCollectionReplaces ==
    [][(lastOp'.op \in SetCollectionOps /\ isSetup)
       => LET in == lastOp'.in
              inputs == IF lastOp'.op = "setCollection"
                        THEN [k \in 1..Len(in) |-> obj[in[k]].value]
                        ELSE in
          IN  /\ ~aborted'
              /\ Len(parameters') = Len(in)
              /\ \A k \in 1..Len(in) : obj'[parameters'[k]].value = inputs[k]
              /\ shapeLog' = IF lastOp'.doNotify
                             THEN <<[payload |-> "this", items |-> Len(in),
                                     group |-> Len(in), listeners |-> Len(in)]>>
                             ELSE <<>>]_vars

\* C7 witness: three values replaced the items, with notify
C7_Witness ==
    /\ lastOp.op = "setCollectionValues" /\ lastOp.doNotify
    /\ lastOp.in = <<0, 12, 0>>
    /\ Len(shapeLog) = 1

\* C8: after setCollection or clear, an item a client still holds from before
\* the call is no longer in the collection and carries no subscription, and
\* setting the value of an object that is not in the collection fires no
\* item-changed event.
C8_OldItemsDetached ==
    [][/\ (lastOp'.op \in SetCollectionOps \cup {"clear"} /\ ~aborted')
          => \A h \in held \cap Range(parameters) :
                 /\ h \notin Range(parameters')
                 /\ \A k \in 1..Len(valueListeners') : valueListeners'[k].src # h
       /\ (lastOp'.op = "set" /\ lastOp'.h \notin Range(parameters'))
          => itemLog' = <<>>]_vars

\* C8 witness: a client set the value of an item that left the collection,
\* while the collection has other items
C8_Witness ==
    /\ lastOp.op = "set" /\ lastOp.h \notin Range(parameters)
    /\ Len(parameters) >= 1

\* C9: addItem(v, true) fires shape-changed exactly once, with the collection
\* as payload and the item already in the vector and the group;
\* addItem(v, false) fires none.
C9_AddItemNotifiesOnce ==
    (lastOp.op = "addItem" /\ ~aborted)
    => IF lastOp.doNotify
       THEN /\ Len(shapeLog) = 1
            /\ shapeLog[1].payload = "this"
            /\ shapeLog[1].items = Len(parameters)
            /\ shapeLog[1].group = Len(parameterGroup)
            /\ Len(parameters) >= 1
            /\ parameters[Len(parameters)] = parameterGroup[Len(parameterGroup)]
       ELSE shapeLog = <<>>

\* C9 witness: addItem(v, true) returned on a collection that had an item
C9_Witness ==
    /\ lastOp.op = "addItem" /\ lastOp.doNotify /\ ~aborted
    /\ Len(parameters) = 2

\* C10: after setup and k calls of addItem and no other change, item i is
\* named by the prefix followed by the decimal text of i.
C10_NamesCountFromZero ==
    (onlyAdds /\ ~aborted)
    => \A i \in 0..(Len(parameters) - 1) :
           obj[parameters[i + 1]].name = itemPrefix \o ofToString(i)

\* C10 witness: three items were added to a fresh collection
C10_Witness ==
    /\ onlyAdds /\ ~aborted
    /\ Len(parameters) = 3

\* the removals, and the position (counted from 1) of the item a successful
\* removal took out of the vector
RemovalOps == {"removeAt", "removeItem"}
Removed == IF lastOp'.op = "removeAt" THEN lastOp'.idx + 1
           ELSE Find(parameters, lastOp'.h)
Removes == lastOp'.op \in RemovalOps /\ lastOp'.ret /\ ~aborted'

\* C11 as claimed: after a removal every remaining item still has the name it
\* had before the removal.
C11_NamesNeverRenumbered ==
    [][Removes
       => \A k \in 1..Len(parameters') :
              obj'[parameters'[k]].name =
                  obj[parameters[IF k < Removed THEN k ELSE k + 1]].name]_vars

\* C11 amended: a removal re-creates the remaining items and names each by its
\* new index, so the names stay with the positions: position k has after the
\* removal the name it had before, and the item behind a removed one takes
\* over the name of its predecessor.
C11_NamesFollowPositions ==
    [][Removes
       => /\ Len(parameters') = Len(parameters) - 1
          /\ \A k \in 1..Len(parameters') :
                 /\ obj'[parameters'[k]].name = obj[parameters[k]].name
                 /\ obj'[parameters'[k]].value =
                        obj[parameters[IF k < Removed THEN k ELSE k + 1]].value]_vars

\* C11 witness: the first of three items with distinguishable values was
\* removed
C11_Witness ==
    /\ lastOp.op \in RemovalOps /\ lastOp.ret /\ ~aborted
    /\ lastOp.op = "removeAt" /\ lastOp.idx = 0
    /\ Len(parameters) = 2
    /\ obj[parameters[1]].value # obj[parameters[2]].value

\* the public operations other than setup that change the collection or fire
\* its events
PublicOps == {"addItem", "removeAt", "removeItem", "setCollection",
              "setCollectionPtrs", "setCollectionValues", "setValues", "clear",
              "preDeserialize", "notify"}

\* C12: a public operation called on a collection that was never set up
\* aborts, changing no state and firing no event.
C12_FailsFastBeforeSetup ==
    (~isSetup /\ lastOp.op \in PublicOps)
    => /\ aborted
       /\ shapeLog = <<>> /\ itemLog = <<>>
       /\ parameters = <<>> /\ parameterGroup = <<>> /\ valueListeners = <<>>

\* C13: setValues with a list as long as the collection gives the item at each
\* index the input at that index and changes nothing else: the same objects in
\* the same order with the same names, the same group, the same subscriptions.
C13_SetValuesInPlace ==
    [][(lastOp'.op = "setValues" /\ Len(lastOp'.in) = Len(parameters))
       => /\ ~aborted'
          /\ parameters' = parameters
          /\ parameterGroup' = parameterGroup
          /\ valueListeners' = valueListeners
          /\ \A k \in 1..Len(parameters) :
                 obj'[parameters[k]] =
                     [obj[parameters[k]] EXCEPT !.value = lastOp'.in[k]]]_vars

\* C14: setValues with a list of another length than the collection aborts
\* with every item, the group and the subscriptions as they were and no event
\* fired.
C14_SetValuesArity ==
    [][(lastOp'.op = "setValues" /\ Len(lastOp'.in) # Len(parameters))
       => /\ aborted'
          /\ obj' = obj
          /\ parameters' = parameters
          /\ parameterGroup' = parameterGroup
          /\ valueListeners' = valueListeners
          /\ shapeLog' = <<>> /\ itemLog' = <<>>]_vars

\* C14 witness: setValues with notify aborted on a list longer than a
\* collection of two items
C14_Witness ==
    /\ lastOp.op = "setValues" /\ lastOp.doNotify /\ aborted
    /\ Len(parameters) = 2 /\ Len(lastOp.in) = 3

\* C15: removeAt with an index outside 0..size-1, negative ones included, and
\* removeItem with a handle that is not in the collection return false without
\* aborting, leave items, group and subscriptions as they were and fire no
\* shape-changed event, with notify true or false.
C15_FailedRemovalIsNoOp ==
    [][(\/ /\ lastOp'.op = "removeAt"
           /\ (lastOp'.idx < 0 \/ lastOp'.idx >= Len(parameters))
        \/ /\ lastOp'.op = "removeItem"
           /\ lastOp'.h \notin Range(parameters))
       => /\ ~aborted' /\ ~lastOp'.ret
          /\ obj' = obj
          /\ parameters' = parameters
          /\ parameterGroup' = parameterGroup
          /\ valueListeners' = valueListeners
          /\ shapeLog' = <<>>]_vars

\* C15 witness: removeAt(-1) with notify returned false on a collection of
\* two items
C15_Witness ==
    /\ lastOp.op = "removeAt" /\ lastOp.idx = -1 /\ lastOp.doNotify
    /\ ~lastOp.ret /\ ~aborted
    /\ Len(parameters) = 2

C17_NoNodeLeavesEmpty ==
    (lastOp.op = "preDeserialize" /\ ~lastOp.xml.found /\ isSetup)
    => /\ ~aborted
       /\ parameters = <<>> /\ parameterGroup = <<>> /\ valueListeners = <<>>

\* C17 amended: when the tree has no node for the group, preDeserialize
\* returns without aborting; with clear = true it leaves the collection empty,
\* with clear = false it leaves the collection as it was.
C17_NoNodeClearsOrKeeps ==
    [][(lastOp'.op = "preDeserialize" /\ ~lastOp'.xml.found /\ isSetup)
       => /\ ~aborted'
          /\ shapeLog' = <<>>
          /\ IF lastOp'.doClear
             THEN /\ parameters' = <<>> /\ parameterGroup' = <<>>
                  /\ valueListeners' = <<>>
             ELSE /\ parameters' = parameters /\ parameterGroup' = parameterGroup
                  /\ valueListeners' = valueListeners /\ obj' = obj]_vars

\* C17 witness: a collection of two items was pre-deserialized with
\* clear = true from a tree without the group's node
C17_Witness ==
    /\ lastOp.op = "preDeserialize" /\ ~lastOp.xml.found /\ lastOp.doClear
    /\ lastOp.idx = 2 /\ ~aborted
    /\ parameters = <<>>

\* C18: a successful removeAt/removeItem fires exactly one shape-changed event
\* when notify is true, fired when the rebuild is complete (the n-1 remaining
\* items are in the vector and the group, each subscribed), and none when
\* notify is false.
C18_RemovalNotifiesOnce ==
    [][Removes
       => shapeLog' = IF lastOp'.doNotify
                      THEN <<[payload |-> "this",
                              items |-> Len(parameters) - 1,
                              group |-> Len(parameters) - 1,
                              listeners |-> Len(parameters) - 1]>>
                      ELSE <<>>]_vars

\* C18 witness: the middle one of three items was removed without notify
C18_Witness ==
    /\ lastOp.op \in RemovalOps /\ lastOp.ret /\ ~lastOp.doNotify /\ ~aborted
    /\ lastOp.op = "removeAt" /\ lastOp.idx = 1
    /\ Len(parameters) = 2 /\ shapeLog = <<>>

\* C19: on a collection that has been set up, after any sequence of calls the
\* item at index i is named the prefix followed by the decimal text of i, so
\* the names are contiguous from 0 and pairwise distinct.
C19_NamesContiguous ==
    (isSetup /\ ~aborted)
    => /\ \A i \in 1..Len(parameters) :
              obj[parameters[i]].name = itemPrefix \o ofToString(i - 1)
       /\ \A i, j \in 1..Len(parameters) :
              i # j => obj[parameters[i]].name # obj[parameters[j]].name

\* C19 witness: the first of three items was removed by its handle
C19_Witness ==
    /\ isSetup /\ ~aborted
    /\ lastOp.op = "removeItem" /\ lastOp.ret
    /\ lastOp.h \in held /\ obj[lastOp.h].name = itemPrefix \o ofToString(0)
    /\ Len(parameters) = 2

\* C20: a successful removeAt/removeItem puts a newly made object in the place
\* of every remaining item: no handle a client holds from before the call is
\* in the collection or subscribed afterwards, so right after it removeItem
\* with such a handle returns false and setting its value fires no
\* item-changed event.
C20_RemovalRenewsItems ==
    [][/\ Removes
          => \A h \in held :
                 /\ h \notin Range(parameters')
                 /\ h \notin Range(parameterGroup')
                 /\ \A k \in 1..Len(valueListeners') :
                        valueListeners'[k].src # h
       /\ (lastOp.op \in RemovalOps /\ lastOp.ret /\ ~aborted)
          => /\ lastOp'.op = "removeItem" => ~lastOp'.ret
             /\ (lastOp'.op = "set" /\ lastOp'.h \in held) => itemLog' = <<>>]_vars

\* C20 witness: the first of two items was removed while a client holds the
\* handle of the second: the item now in the collection has its value but is
\* another object
C20_Witness ==
    /\ lastOp.op = "removeAt" /\ lastOp.idx = 0 /\ lastOp.ret /\ ~aborted
    /\ Len(parameters) = 1
    /\ \E h \in held :
          /\ obj[h].name = itemPrefix \o ofToString(1)
          /\ obj[h].value = obj[parameters[1]].value
          /\ h # parameters[1]

\* C21: whichever operation fires a shape-changed event, the handlers run
\* while the collection is consistent: it then has as many items as the group
\* has children and as the collection has item subscriptions.
C21_NotifiedWhenConsistent ==
    \A k \in 1..Len(shapeLog) :
        /\ shapeLog[k].items = shapeLog[k].group
        /\ shapeLog[k].items = shapeLog[k].listeners

\* C21 witness: clear() notified on a collection that held three items
C21_Witness ==
    /\ lastOp.op = "clear" /\ lastOp.doNotify /\ ~aborted
    /\ Len(shapeLog) = 1
    /\ \E h \in held : obj[h].name = itemPrefix \o ofToString(2)

\* the operations that change which items the collection holds
StructuralOps == {"addItem", "removeAt", "removeItem", "setCollection",
                  "setCollectionPtrs", "setCollectionValues", "clear",
                  "preDeserialize"}

\* C22: addItem, removeAt, removeItem, setCollection, clear and
\* preDeserialize fire no item-changed event.
C22_StructuralOpsFireNoItemEvent ==
    lastOp.op \in StructuralOps => itemLog = <<>>

\* C22 witness: setCollection rebuilt the collection from two item handles
C22_Witness ==
    /\ lastOp.op = "setCollection" /\ ~aborted
    /\ Len(lastOp.in) = 2 /\ Len(parameters) = 2
    /\ itemLog = <<>>

\* C23: once setLimits has been called, a successful removeAt/removeItem and
\* a setCollection given item handles leave every item of the collection with
\* the stored bounds, whatever bounds the items had whose values they carry;
\* and no operation unsets the stored limits.
C23_RebuildAppliesLimits ==
    [][/\ (hasLimits /\ (Removes \/ (lastOp'.op = "setCollection" /\ ~aborted')))
          => \A k \in 1..Len(parameters') : obj'[parameters'[k]].lim = limits
       /\ hasLimits
          => /\ hasLimits'
             /\ limits' \in LimitPairs
             /\ lastOp'.op # "setLimits" => limits' = limits]_vars

\* C23 witness: the first of two items added before setLimits was removed
\* after it; the client still holds the old second item, which has no bounds,
\* and the item that now carries its value has the stored ones
C23_Witness ==
    /\ hasLimits /\ ~aborted
    /\ lastOp.op = "removeAt" /\ lastOp.idx = 0 /\ lastOp.ret
    /\ Len(parameters) = 1
    /\ obj[parameters[1]].lim = limits
    /\ \E h \in held :
          /\ obj[h].name = itemPrefix \o ofToString(1)
          /\ obj[h].lim = <<>>
          /\ obj[h].value = obj[parameters[1]].value
====
